---- MODULE Spec2Model ----
(***************************************************************************)
(* Model of the CHIP-8 interpreter of src/chip8.py (Python 2): the class   *)
(* Chip8 (registers, memory, stack, timers), the part of the class UI that *)
(* the interpreter drives (frame buffer, keyboard) and the driver main().  *)
(* A Python exception ends the process: it is recorded in status, with the *)
(* assignments made before it kept.                                        *)
(***************************************************************************)
EXTENDS Integers, Sequences, FiniteSets, TLC

\* ------------------------------------------------------------------ bounds

\* Cycles of emulate_cycle a run is followed for.
MaxCycles == 6

\* The clock is advanced only while it reads less than MaxClock.
MaxClock == 6

\* Events are posted only while fewer than MaxEvents are queued.
MaxEvents == 2

\* load_rom is called at most MaxLoads times.
MaxLoads == 2

\* ------------------------------------------------------- program constants

MemSize == 4096
NumRegs == 16
XXX == 64
YYY == 32
StartPc == 512
F == 15
NumKeys == 16

Addr == 0 .. (MemSize - 1)
Reg == 0 .. (NumRegs - 1)
Byte == 0 .. 255

fonts ==
  << 240, 144, 144, 144, 240,
     32, 96, 32, 32, 112,
     240, 16, 240, 128, 240,
     240, 16, 240, 16, 240,
     144, 144, 240, 16, 16,
     240, 128, 240, 16, 240,
     240, 128, 240, 144, 240,
     240, 16, 32, 64, 64,
     240, 144, 240, 144, 240,
     240, 144, 240, 16, 240,
     240, 144, 240, 144, 144,
     224, 144, 224, 144, 224,
     240, 128, 128, 128, 240,
     224, 144, 144, 144, 224,
     240, 128, 240, 128, 240,
     240, 128, 240, 128, 128 >>

\* ------------------------------------------------- Python's int operators

RECURSIVE BitAnd(_, _)
BitAnd(a, b) ==
  IF a = 0 \/ b = 0 THEN 0
  ELSE (a % 2) * (b % 2) + 2 * BitAnd(a \div 2, b \div 2)

RECURSIVE BitOr(_, _)
BitOr(a, b) ==
  IF a = 0 THEN b
  ELSE IF b = 0 THEN a
  ELSE (IF a % 2 = 1 \/ b % 2 = 1 THEN 1 ELSE 0) + 2 * BitOr(a \div 2, b \div 2)

RECURSIVE BitXor(_, _)
BitXor(a, b) ==
  IF a = 0 THEN b
  ELSE IF b = 0 THEN a
  ELSE ((a + b) % 2) + 2 * BitXor(a \div 2, b \div 2)

Max(a, b) == IF a > b THEN a ELSE b

\* ------------------------------------------------------------------- state

VARIABLES
  rom_file,     \* the bytes of the file sys.argv[1] names
  status,       \* "new", "running", or the exception that ended the process
  n,            \* Chip8.n
  pc,           \* Chip8.pc
  opcode,       \* Chip8.opcode
  I,            \* Chip8.I
  V,            \* Chip8.V
  stack,        \* Chip8.stack
  memory,       \* Chip8.memory, as the map of its nonzero cells
  delay_timer,  \* Chip8.delay_timer, <<value, start>>
  sound_timer,  \* Chip8.sound_timer
  clock,        \* time.time(), in 1/120 s
  buffer,       \* UI.buffer, as the set of the <<x, y>> whose cell is True
  keyboard,     \* UI.keyboard
  logged,       \* the last cycle called log_error
  events,       \* pygame's event queue: what pygame.event.get() will return
  polled,       \* main() has called handle_input_event since the last cycle
  loads,        \* the calls of load_rom so far
  pre           \* the interpreter's state when the last cycle began

vars ==
  << rom_file, status, n, pc, opcode, I, V, stack, memory, delay_timer,
     sound_timer, clock, buffer, keyboard, logged, events, polled, loads,
     pre >>

\* The interpreter's state, as the record the cycle works on.
Machine ==
  [ status |-> status, pc |-> pc, opcode |-> opcode, I |-> I, V |-> V,
    stack |-> stack, memory |-> memory, delay_timer |-> delay_timer,
    buffer |-> buffer, keyboard |-> keyboard, clock |-> clock,
    logged |-> FALSE ]

Raise(m, exc) == [m EXCEPT !.status = exc]

\* Chip8.memory is a bytearray of MemSize cells. It is held as the function
\* from the addresses of its nonzero cells to their values, so that two
\* memories are equal exactly when every cell is.
Peek(mem, a) == IF a \in DOMAIN mem THEN mem[a] ELSE 0

Poke(mem, a, v) ==
  [b \in (DOMAIN mem \ {a}) \cup (IF v # 0 THEN {a} ELSE {}) |->
     IF b = a THEN v ELSE mem[b]]

\* ---------------------------------------------------- UI, as the core uses it

\* UI.clear_screen: every cell of the buffer False.
clear_screen == {}

\* draw_pixel setting the cell where it should flip it.
draw_pixel_SetOnly(buf, x, y) ==
  [ buffer |-> buf \cup {<<x, y>>}, old |-> (<<x, y>> \in buf) ]

\* draw_pixel returning what the cell holds after the flip.
draw_pixel_ReturnsNew(buf, x, y) ==
  [ buffer |-> IF <<x, y>> \in buf THEN buf \ {<<x, y>>} ELSE buf \cup {<<x, y>>},
    old |-> (<<x, y>> \notin buf) ]

\* UI.draw_pixel: flips the cell and returns what it held.
draw_pixel(buf, x, y) ==
  [ buffer |-> IF <<x, y>> \in buf THEN buf \ {<<x, y>>} ELSE buf \cup {<<x, y>>},
    old |-> (<<x, y>> \in buf) ]

\* --------------------------------------------------- emulate_cycle, by opcode

Op00E0(m) == [m EXCEPT !.buffer = clear_screen]

\* Op00EE going on, with PC as it is, when there is nothing to pop.
Op00EE_IgnoreEmpty(m) ==
  IF Len(m.stack) = 0 THEN m
  ELSE [m EXCEPT !.pc = m.stack[Len(m.stack)],
                 !.stack = SubSeq(m.stack, 1, Len(m.stack) - 1)]

\* list.pop() of an empty list raises IndexError.
Op00EE(m) ==
  IF Len(m.stack) = 0 THEN Raise(m, "IndexError")
  ELSE [m EXCEPT !.pc = m.stack[Len(m.stack)],
                 !.stack = SubSeq(m.stack, 1, Len(m.stack) - 1)]

Op1NNN(m, NNN) == [m EXCEPT !.pc = NNN]

\* Op2NNN pushing the address of the call, not the one after it.
Op2NNN_PushCallSite(m, NNN) ==
  [m EXCEPT !.stack = Append(m.stack, m.pc - 2), !.pc = NNN]

Op2NNN(m, NNN) == [m EXCEPT !.stack = Append(m.stack, m.pc), !.pc = NNN]

Op3XNN(m, X, NN) == IF m.V[X] = NN THEN [m EXCEPT !.pc = m.pc + 2] ELSE m

Op4XNN(m, X, NN) == IF m.V[X] # NN THEN [m EXCEPT !.pc = m.pc + 2] ELSE m

Op5XY0(m, X, Y) == IF m.V[X] = m.V[Y] THEN [m EXCEPT !.pc = m.pc + 2] ELSE m

Op9XY0(m, X, Y) == IF m.V[X] # m.V[Y] THEN [m EXCEPT !.pc = m.pc + 2] ELSE m

Op6XNN(m, X, NN) == [m EXCEPT !.V[X] = NN]

Op7XNN(m, X, NN) ==
  IF m.V[X] + NN > 255 THEN [m EXCEPT !.V[X] = BitAnd(m.V[X] + NN, 255)]
  ELSE [m EXCEPT !.V[X] = m.V[X] + NN]

Op8XY0(m, X, Y) == [m EXCEPT !.V[X] = m.V[Y]]

Op8XY1(m, X, Y) == [m EXCEPT !.V[X] = BitOr(m.V[X], m.V[Y])]

Op8XY2(m, X, Y) == [m EXCEPT !.V[X] = BitAnd(m.V[X], m.V[Y])]

Op8XY3(m, X, Y) == [m EXCEPT !.V[X] = BitXor(m.V[X], m.V[Y])]

\* Op8XY4 with the carry taken from a sum of 255 on.
Op8XY4_CarryAt255(m, X, Y) ==
  IF m.V[X] + m.V[Y] >= 255
  THEN LET V1 == [m.V EXCEPT ![X] = BitAnd(m.V[X] + m.V[Y], 255)]
       IN [m EXCEPT !.V = [V1 EXCEPT ![F] = 1]]
  ELSE LET V1 == [m.V EXCEPT ![X] = m.V[X] + m.V[Y]]
       IN [m EXCEPT !.V = [V1 EXCEPT ![F] = 0]]

\* Two assignments in the code's order: V[X], then V[F].
Op8XY4(m, X, Y) ==
  IF m.V[X] + m.V[Y] > 255
  THEN LET V1 == [m.V EXCEPT ![X] = BitAnd(m.V[X] + m.V[Y], 255)]
       IN [m EXCEPT !.V = [V1 EXCEPT ![F] = 1]]
  ELSE LET V1 == [m.V EXCEPT ![X] = m.V[X] + m.V[Y]]
       IN [m EXCEPT !.V = [V1 EXCEPT ![F] = 0]]

\* Op8XY5 with the difference wrapped to 8 bits on a borrow.
Op8XY5_Wrap(m, X, Y) ==
  IF m.V[X] < m.V[Y]
  THEN LET V1 == [m.V EXCEPT ![X] = (m.V[X] - m.V[Y]) % 256]
       IN [m EXCEPT !.V = [V1 EXCEPT ![F] = 0]]
  ELSE LET V1 == [m.V EXCEPT ![X] = m.V[X] - m.V[Y]]
       IN [m EXCEPT !.V = [V1 EXCEPT ![F] = 1]]

Op8XY5(m, X, Y) ==
  IF m.V[X] < m.V[Y]
  THEN LET V1 == [m.V EXCEPT ![X] = m.V[Y] - m.V[X]]
       IN [m EXCEPT !.V = [V1 EXCEPT ![F] = 0]]
  ELSE LET V1 == [m.V EXCEPT ![X] = m.V[X] - m.V[Y]]
       IN [m EXCEPT !.V = [V1 EXCEPT ![F] = 1]]

\* V[F] is assigned first; V[Y] is read after it.
Op8XY6(m, X, Y) ==
  LET V1 == [m.V EXCEPT ![F] = m.V[X] % 2]
  IN [m EXCEPT !.V = [V1 EXCEPT ![X] = V1[Y] \div 2]]

Op8XY7(m, X, Y) ==
  IF m.V[Y] > m.V[X]
  THEN LET V1 == [m.V EXCEPT ![X] = m.V[Y] - m.V[X]]
       IN [m EXCEPT !.V = [V1 EXCEPT ![F] = 1]]
  ELSE LET V1 == [m.V EXCEPT ![X] = m.V[X] - m.V[Y]]
       IN [m EXCEPT !.V = [V1 EXCEPT ![F] = 0]]

Op8XYE(m, X, Y) ==
  LET V1 == [m.V EXCEPT ![F] = (m.V[X] \div 128) % 2]
  IN [m EXCEPT !.V = [V1 EXCEPT ![X] = (V1[X] * 2) % 256]]

OpANNN(m, NNN) == [m EXCEPT !.I = NNN]

OpBNNN(m, NNN) == [m EXCEPT !.pc = (NNN + m.V[0]) % 65536]

\* r is the value randint(0, 0xFF) returned.
OpCXNN(m, X, NN, r) == [m EXCEPT !.V[X] = BitAnd(r, NN)]

\* One row of a sprite: the 8 bits of line, most significant first; k counts
\* the iterations left.
RECURSIVE DrawLine(_, _, _, _, _, _)
DrawLine(buf, erase, line, x, y, k) ==
  IF k = 0 THEN [buffer |-> buf, erase |-> erase]
  ELSE IF (line \div 128) % 2 = 1
       THEN LET p == draw_pixel(buf, x % XXX, y % YYY)
            IN IF p.old
               THEN DrawLine(p.buffer, TRUE, line * 2, x + 1, y, k - 1)
               ELSE DrawLine(p.buffer, erase, line * 2, x + 1, y, k - 1)
       ELSE DrawLine(buf, erase, line * 2, x + 1, y, k - 1)

\* The rows memory[a], ..., memory[end - 1], each one row lower than the last.
\* (The test of row.erase has each row evaluated before the next begins.)
RECURSIVE DrawLines(_, _, _, _, _, _, _)
DrawLines(buf, erase, mem, a, end, x, y) ==
  IF a >= end THEN [buffer |-> buf, erase |-> erase]
  ELSE LET row == DrawLine(buf, erase, Peek(mem, a), x, y, 8)
       IN IF row.erase
          THEN DrawLines(row.buffer, TRUE, mem, a + 1, end, x, y + 1)
          ELSE DrawLines(row.buffer, FALSE, mem, a + 1, end, x, y + 1)

\* The slice memory[I : I + height] stops at the end of memory and raises
\* nothing.
OpDXYN(m, X, Y, D) ==
  LET end == IF m.I + D > MemSize THEN MemSize ELSE m.I + D
      drawn == DrawLines(m.buffer, FALSE, m.memory, m.I, end, m.V[X], m.V[Y])
  IN [m EXCEPT !.buffer = drawn.buffer,
               !.V[F] = IF drawn.erase THEN 1 ELSE 0]

\* keyboard is a list of 16: an index above 15 raises IndexError.
OpEX9E(m, X) ==
  IF m.V[X] >= NumKeys THEN Raise(m, "IndexError")
  ELSE IF m.keyboard[m.V[X]] THEN [m EXCEPT !.pc = m.pc + 2] ELSE m

OpEXA1(m, X) ==
  IF m.V[X] >= NumKeys THEN Raise(m, "IndexError")
  ELSE IF ~m.keyboard[m.V[X]] THEN [m EXCEPT !.pc = m.pc + 2] ELSE m

\* FX07 without max(current, 0).
OpFX07_NoFloor(m, X) ==
  [m EXCEPT !.V[X] = (m.delay_timer[1] - (m.clock - m.delay_timer[2]) \div 2) % 256]

\* int() truncates towards zero; clock and start count 1/120 s, so that
\* (time.time() - start) * 60 is (clock - start) / 2.
OpFX07(m, X) ==
  LET value == m.delay_timer[1]
      start == m.delay_timer[2]
      twice == 2 * value - (m.clock - start)
      current == IF twice >= 0 THEN twice \div 2 ELSE 0 - ((0 - twice) \div 2)
  IN [m EXCEPT !.V[X] = Max(current, 0)]

\* UI.wait_key_event(self, key) is called with no argument: TypeError.
OpFX0A(m, X) == Raise(m, "TypeError")

OpFX15(m, X) == [m EXCEPT !.delay_timer = <<m.V[X], m.clock>>]

OpFX18(m, X) == m

OpFX1E(m, X) ==
  LET V1 == [m.V EXCEPT ![F] = IF m.I + m.V[X] > 4095 THEN 1 ELSE 0]
  IN [m EXCEPT !.V = V1, !.I = (V1[X] + m.I) % 65536]

OpFX29(m, X) == [m EXCEPT !.I = m.V[X] * 5]

\* memory[a] = v: IndexError past the end of the bytearray.
SetMemory(m, a, v) ==
  IF m.status # "running" THEN m
  ELSE IF a >= MemSize THEN Raise(m, "IndexError")
  ELSE [m EXCEPT !.memory = Poke(m.memory, a, v)]

OpFX33(m, X) ==
  LET m1 == SetMemory(m, m.I, m.V[X] \div 100)
      m2 == SetMemory(m1, m.I + 1, (m.V[X] \div 10) % 10)
  IN SetMemory(m2, m.I + 2, m.V[X] % 100)

RECURSIVE RegDump(_, _, _)
RegDump(m, X, i) ==
  IF i > X \/ m.status # "running" THEN m
  ELSE RegDump(SetMemory(m, m.I + i, m.V[i]), X, i + 1)

\* OpFX55 stopping before VX.
OpFX55_ExcludingVX(m, X) == RegDump(m, X - 1, 0)

OpFX55(m, X) == RegDump(m, X, 0)

RECURSIVE RegLoad(_, _, _)
RegLoad(m, X, i) ==
  IF i > X THEN m
  ELSE IF m.I + i >= MemSize THEN Raise(m, "IndexError")
  ELSE RegLoad([m EXCEPT !.V[i] = Peek(m.memory, m.I + i)], X, i + 1)

OpFX65(m, X) == RegLoad(m, X, 0)

\* log_error("unkown opcode %s", opcode)
Unknown(m) == [m EXCEPT !.logged = TRUE]

\* The if/elif chain of emulate_cycle, after the fetch.
Execute(m, A, X, Y, D, NN, NNN, r) ==
  CASE A = 0 -> IF NNN = 224 THEN Op00E0(m)
                ELSE IF NNN = 238 THEN Op00EE(m)
                ELSE Unknown(m)
    [] A = 1 -> Op1NNN(m, NNN)
    [] A = 2 -> Op2NNN(m, NNN)
    [] A = 3 -> Op3XNN(m, X, NN)
    [] A = 4 -> Op4XNN(m, X, NN)
    [] A = 5 -> Op5XY0(m, X, Y)
    [] A = 9 -> Op9XY0(m, X, Y)
    [] A = 6 -> Op6XNN(m, X, NN)
    [] A = 7 -> Op7XNN(m, X, NN)
    [] A = 8 -> CASE D = 0 -> Op8XY0(m, X, Y)
                  [] D = 1 -> Op8XY1(m, X, Y)
                  [] D = 2 -> Op8XY2(m, X, Y)
                  [] D = 3 -> Op8XY3(m, X, Y)
                  [] D = 4 -> Op8XY4(m, X, Y)
                  [] D = 5 -> Op8XY5(m, X, Y)
                  [] D = 6 -> Op8XY6(m, X, Y)
                  [] D = 7 -> Op8XY7(m, X, Y)
                  [] D = 14 -> Op8XYE(m, X, Y)
                  [] OTHER -> Unknown(m)
    [] A = 10 -> OpANNN(m, NNN)
    [] A = 11 -> OpBNNN(m, NNN)
    [] A = 12 -> OpCXNN(m, X, NN, r)
    [] A = 13 -> OpDXYN(m, X, Y, D)
    [] A = 14 -> IF NN = 158 THEN OpEX9E(m, X)
                 ELSE IF NN = 161 THEN OpEXA1(m, X)
                 ELSE Unknown(m)
    [] A = 15 -> CASE NN = 7 -> OpFX07(m, X)
                   [] NN = 10 -> OpFX0A(m, X)
                   [] NN = 21 -> OpFX15(m, X)
                   [] NN = 24 -> OpFX18(m, X)
                   [] NN = 30 -> OpFX1E(m, X)
                   [] NN = 41 -> OpFX29(m, X)
                   [] NN = 51 -> OpFX33(m, X)
                   [] NN = 85 -> OpFX55(m, X)
                   [] NN = 101 -> OpFX65(m, X)
                   [] OTHER -> Unknown(m)

\* The fetch and decode of emulate_cycle, then the opcode. memory[pc] or
\* memory[pc + 1] past the end raises IndexError before opcode and pc change.
Cycle(m, r) ==
  IF m.pc + 1 >= MemSize THEN Raise(m, "IndexError")
  ELSE LET AX == Peek(m.memory, m.pc)
           YD == Peek(m.memory, m.pc + 1)
           A == AX \div 16
           X == AX % 16
           Y == YD \div 16
           D == YD % 16
           NNN == X * 256 + YD
       IN Execute([m EXCEPT !.opcode = AX * 256 + YD, !.pc = m.pc + 2],
                  A, X, Y, D, YD, NNN, r)

\* What randint(0, 0xFF) can return, where the opcode at pc draws it.
RandChoices ==
  IF pc + 1 < MemSize /\ Peek(memory, pc) \div 16 = 12 THEN Byte ELSE {0}

\* -------------------------------------------------------------- the actions

\* What pre holds: the interpreter's state at the start of a cycle.
Snapshot ==
  [ pc |-> pc, opcode |-> opcode, I |-> I, V |-> V, stack |-> stack,
    memory |-> memory, status |-> status, delay_timer |-> delay_timer, sound_timer |-> sound_timer,
    buffer |-> buffer, clock |-> clock ]

\* UI.__init__ and Chip8.__init__, with the font set in memory[0 .. 79].
Constructed ==
  /\ status = "new"
  /\ n = 0
  /\ pc = StartPc
  /\ opcode = 0
  /\ I = 0
  /\ V = [i \in Reg |-> 0]
  /\ stack = << >>
  /\ memory = [a \in {i \in 0 .. (Len(fonts) - 1) : fonts[i + 1] # 0} |-> fonts[a + 1]]
  /\ delay_timer = <<0, 0>>
  /\ sound_timer = 0
  /\ clock = 0
  /\ buffer = clear_screen
  /\ keyboard = [k \in 0 .. (NumKeys - 1) |-> FALSE]
  /\ logged = FALSE
  /\ events = << >>
  /\ polled = FALSE
  /\ loads = 0
  /\ pre = Snapshot

\* memory[i + at] = data[i] for every i in range(len(data)).
Copy(mem, data, at) ==
  LET cell(a) == IF a >= at /\ a < at + Len(data) THEN data[a - at + 1]
                 ELSE Peek(mem, a)
  IN [a \in {b \in DOMAIN mem \cup (at .. (at + Len(data) - 1)) : cell(b) # 0} |->
        cell(a)]

\* load_rom: the assert, then the copy to memory[pc ...]. A failed assert
\* ends main() with AssertionError before any byte is written.
LoadRom ==
  /\ status = "new"
  /\ LET data == rom_file
         length == Len(data)
     IN IF MemSize - pc > length
        THEN /\ memory' = Copy(memory, data, pc)
             /\ status' = "running"
        ELSE /\ memory' = memory
             /\ status' = "AssertionError"
  /\ loads' = loads + 1
  /\ UNCHANGED << rom_file, n, pc, opcode, I, V, stack, delay_timer,
                  sound_timer, clock, buffer, keyboard, logged, events,
                  polled, pre >>

\* One call of emulate_cycle from main()'s loop. self.n is incremented before
\* the fetch.
EmulateCycle ==
  /\ status = "running"
  /\ n < MaxCycles
  /\ \E r \in RandChoices :
       LET m == Cycle(Machine, r)
       IN /\ status' = m.status
          /\ pc' = m.pc
          /\ opcode' = m.opcode
          /\ I' = m.I
          /\ V' = m.V
          /\ stack' = m.stack
          /\ memory' = m.memory
          /\ delay_timer' = m.delay_timer
          /\ buffer' = m.buffer
          /\ logged' = m.logged
  /\ n' = n + 1
  /\ pre' = Snapshot
  /\ polled' = FALSE
  /\ UNCHANGED << rom_file, sound_timer, clock, keyboard, events, loads >>

Next == LoadRom \/ EmulateCycle

\* Wall-clock time passing between two reads of time.time(), in 1/120 s: half
\* a tick of the timer, one tick, or half a second.
Elapse == {1, 2, 60}

Tick ==
  /\ status = "running"
  /\ clock < MaxClock
  /\ \E d \in Elapse : clock' = clock + d
  /\ UNCHANGED << rom_file, status, n, pc, opcode, I, V, stack, memory,
                  delay_timer, sound_timer, buffer, keyboard, logged, events,
                  polled, loads, pre >>

\* UI.keys: the key at position i + 1 is CHIP-8 key i.
keys ==
  << "x", "1", "2", "3", "q", "w", "e", "a", "s", "d", "z", "c", "4", "r",
     "f", "v" >>

\* What the user does between two polls: a mapped key down or up, or escape.
EventSample ==
  { [type |-> t, key |-> k] : t \in {"KEYDOWN", "KEYUP"}, k \in {"x", "1"} }
  \cup { [type |-> "KEYDOWN", key |-> "escape"] }

\* The user's key event, queued by pygame.
PostEvent ==
  /\ status = "running"
  /\ Len(events) < MaxEvents
  /\ \E e \in EventSample : events' = Append(events, e)
  /\ UNCHANGED << rom_file, status, n, pc, opcode, I, V, stack, memory,
                  delay_timer, sound_timer, clock, buffer, keyboard, logged,
                  polled, loads, pre >>

\* The loop of handle_input_event over the events got: the keyboard it leaves
\* and how it ends ("exit" by sys.exit, "return" at a key down, "None" at the
\* end of the events).
RECURSIVE handle_events(_, _)
handle_events(evs, kb) ==
  IF evs = << >> THEN [keyboard |-> kb, end |-> "None"]
  ELSE LET event == Head(evs)
       IN IF event.type \notin {"KEYUP", "KEYDOWN"}
          THEN handle_events(Tail(evs), kb)
          ELSE IF event.key = "escape"
          THEN [keyboard |-> kb, end |-> "exit"]
          ELSE IF \E j \in 1 .. NumKeys : keys[j] = event.key
          THEN LET i == (CHOOSE j \in 1 .. NumKeys : keys[j] = event.key) - 1
                   kb1 == [kb EXCEPT ![i] = (event.type = "KEYDOWN")]
               IN IF event.type = "KEYDOWN"
                  THEN [keyboard |-> kb1, end |-> "return"]
                  ELSE handle_events(Tail(evs), kb1)
          ELSE handle_events(Tail(evs), kb)

\* ui.handle_input_event() of main()'s loop; pygame.event.get() empties the
\* queue.
HandleInputEvent ==
  /\ status = "running"
  /\ ~polled
  /\ LET r == handle_events(events, keyboard)
     IN /\ keyboard' = r.keyboard
        /\ status' = IF r.end = "exit" THEN "SystemExit" ELSE status
  /\ events' = << >>
  /\ polled' = TRUE
  /\ UNCHANGED << rom_file, n, pc, opcode, I, V, stack, memory, delay_timer,
                  sound_timer, clock, buffer, logged, loads, pre >>

\* c.emulate_cycle() of main()'s loop, after the poll.
MainCycle == polled /\ EmulateCycle

\* A further call of load_rom, on a file holding data, by a client of Chip8.
Reload ==
  /\ status = "running"
  /\ loads < MaxLoads
  /\ \E data \in { << 18, 0 >>, << 96, 1, 0, 224 >> } :
       /\ rom_file' = data
       /\ IF MemSize - pc > Len(data)
          THEN /\ memory' = Copy(memory, data, pc)
               /\ status' = status
          ELSE /\ memory' = memory
               /\ status' = "AssertionError"
  /\ loads' = loads + 1
  /\ UNCHANGED << n, pc, opcode, I, V, stack, delay_timer, sound_timer, clock,
                  buffer, keyboard, logged, events, polled, pre >>

\* ------------------------------------------------------------- the programs

Ins(A, X, Y, D) == << A * 16 + X, Y * 16 + D >>
InsNN(A, X, NN) == << A * 16 + X, NN >>
InsNNN(A, NNN) == << A * 16 + (NNN \div 256), NNN % 256 >>

\* Register values the arithmetic programs load.
ByteSample == {0, 5, 10, 128, 182, 255}

\* 6Xa 6Yb 8XYD: two registers set, then one register-to-register opcode.
AluRoms(Ds) ==
  { InsNN(6, X, a) \o InsNN(6, Y, b) \o Ins(8, X, Y, D) :
      X \in Reg, Y \in Reg, a \in ByteSample, b \in ByteSample, D \in Ds }

\* ---------------------------------------------- the last cycle, as decoded

\* The last cycle fetched an instruction: opcode holds it and pre the state
\* it began in.
Executed == n > 0 /\ pre.status = "running" /\ pre.pc + 1 < MemSize

OpA == opcode \div 4096
OpX == (opcode \div 256) % 16
OpY == (opcode \div 16) % 16
OpD == opcode % 16
OpNN == opcode % 256
OpNNN == opcode % 4096

Ran8(D) == Executed /\ OpA = 8 /\ OpD = D
RanF(NN) == Executed /\ OpA = 15 /\ OpNN = NN

\* ------------------------------------------------------------ ADD (8XY4)

InitAdd == rom_file \in AluRoms({4}) /\ Constructed
SpecAdd == InitAdd /\ [][Next]_vars

\* C1, as stated: after 8XY4, for every X and Y in 0..15, V[X] is (a + b) mod
\* 256 and VF is 1 iff a + b > 255, a and b being V[X] and V[Y] before the step.
C1_AddEveryPair ==
  Ran8(4) =>
    /\ V[OpX] = (pre.V[OpX] + pre.V[OpY]) % 256
    /\ V[F] = IF pre.V[OpX] + pre.V[OpY] > 255 THEN 1 ELSE 0

\* C1, amended: after 8XY4, VF is 1 iff a + b > 255 (else 0) for every X and Y,
\* and V[X] is (a + b) mod 256 for every X other than 0xF; no other register
\* changes.
C1_Add ==
  Ran8(4) =>
    /\ status = "running"
    /\ V[F] = IF pre.V[OpX] + pre.V[OpY] > 255 THEN 1 ELSE 0
    /\ OpX # F => V[OpX] = (pre.V[OpX] + pre.V[OpY]) % 256
    /\ \A i \in Reg \ {OpX, F} : V[i] = pre.V[i]

C1_AddWitness ==
  /\ Ran8(4)
  /\ OpX # F /\ OpY # OpX
  /\ pre.V[OpX] + pre.V[OpY] > 255
  /\ V[OpX] = 4 /\ V[F] = 1

\* --------------------------------------------------- reverse subtract (8XY7)

InitRsub == rom_file \in AluRoms({7}) /\ Constructed
SpecRsub == InitRsub /\ [][Next]_vars

\* C2: after 8XY7 with X # 0xF, VF is 1 if y > x else 0, and V[X] is y - x as
\* an 8-bit value in both branches.
C2_ReverseSubtract ==
  (Ran8(7) /\ OpX # F) =>
    /\ V[F] = IF pre.V[OpY] > pre.V[OpX] THEN 1 ELSE 0
    /\ V[OpX] = (pre.V[OpY] - pre.V[OpX]) % 256

\* ---------------------------------------------------------- SUBTRACT (8XY5)

InitSub == rom_file \in AluRoms({5}) /\ Constructed
SpecSub == InitSub /\ [][Next]_vars

InitShr == rom_file \in AluRoms({6}) /\ Constructed
SpecShr == InitShr /\ [][Next]_vars

\* C6: after 8XY6 with X # 0xF and any Y (Y = X and Y = 0xF included), VF is
\* the least significant bit V[X] had before the step and V[X] is the value
\* V[Y] had before the step, shifted right by one.
C6_ShiftRight ==
  (Ran8(6) /\ OpX # F) =>
    /\ V[F] = pre.V[OpX] % 2
    /\ V[OpX] = pre.V[OpY] \div 2

\* ---------------------------------------------------------------- BCD (FX33)

\* 6Xv ANNN FX33: the last address makes memory[I + 2] fall past the end.
BcdRoms ==
  { InsNN(6, X, v) \o InsNNN(10, a) \o InsNN(15, X, 51) :
      X \in {0, 7, 15}, v \in Byte, a \in {768, 4093, 4094} }

InitBcd == rom_file \in BcdRoms /\ Constructed
SpecBcd == InitBcd /\ [][Next]_vars

\* C3: after FX33 with I + 2 <= 4095, memory[I], memory[I + 1] and
\* memory[I + 2] hold the hundreds, tens and ones digit of V[X], each in 0..9;
\* I and the registers are unchanged.
C3_Bcd ==
  (RanF(51) /\ pre.I + 2 <= 4095) =>
    /\ Peek(memory, pre.I) = pre.V[OpX] \div 100
    /\ Peek(memory, pre.I + 1) = (pre.V[OpX] \div 10) % 10
    /\ Peek(memory, pre.I + 2) = pre.V[OpX] % 10
    /\ \A i \in 0 .. 2 : Peek(memory, pre.I + i) \in 0 .. 9
    /\ I = pre.I
    /\ V = pre.V

\* ------------------------------------------------------------------ load_rom

\* An image of len bytes: first, first + stride, ... (mod 256).
Image(len, first, stride) ==
  [k \in 1 .. len |-> (first + (k - 1) * stride) % 256]

\* Images around the largest that fits between 0x200 and the end of memory.
LoadRoms ==
  { Image(len, fill[1], fill[2]) :
      len \in {0, 1, 2, 3, 4} \cup
              ((MemSize - StartPc - 2) .. (MemSize - StartPc + 2)),
      fill \in {<<0, 0>>, <<96, 1>>, <<162, 7>>, <<18, 0>>} }

InitLoad == rom_file \in LoadRoms /\ Constructed
SpecLoad == InitLoad /\ [][Next]_vars

\* C4: load succeeds for every image of at most 4096 - 0x200 = 3584 bytes,
\* its bytes then at 0x200 on (the last of 3584 at 0xFFF), and fails for every
\* longer one, leaving memory unchanged.
C4_Load ==
  (status # "new" /\ n = 0) =>
    IF Len(rom_file) <= MemSize - StartPc
    THEN /\ status = "running"
         /\ \A k \in 1 .. Len(rom_file) :
              Peek(memory, StartPc + k - 1) = rom_file[k]
    ELSE /\ status = "AssertionError"
         /\ memory = pre.memory

\* --------------------------------------------------------- sprite draw (DXYN)

\* 6X.. 6Y.. ANNN DXYM DXYN DXYN: a first draw that leaves pixels set, then
\* the same draw twice. The sprites are font glyphs, the end of the font, the
\* program's own bytes and the zeros at the end of memory.
DrawRoms ==
  { InsNN(6, X, vx) \o InsNN(6, Y, vy) \o InsNNN(10, a) \o
    Ins(13, X, Y, M) \o Ins(13, X, Y, N) \o Ins(13, X, Y, N) :
      X \in {0, 1, 15}, Y \in {0, 1, 15}, vx \in {0, 60, 255},
      vy \in {0, 30, 255}, a \in {0, 75, 512, 4094},
      M \in {0, 5}, N \in {0, 1, 5, 15} }

InitDraw == rom_file \in DrawRoms /\ Constructed
SpecDraw == InitDraw /\ [][Next]_vars

Drew == Executed /\ OpA = 13

\* The screen cells under the set bits of the sprite the last draw read: row
\* r, column c (bit 7 - c of the row's byte) lies at ((V[X] + c) mod 64,
\* (V[Y] + r) mod 32).
SpriteBits ==
  { << (pre.V[OpX] + rc[2]) % XXX, (pre.V[OpY] + rc[1]) % YYY >> :
      rc \in { q \in (0 .. (OpD - 1)) \X (0 .. 7) :
                 /\ pre.I + q[1] < MemSize
                 /\ (Peek(pre.memory, pre.I + q[1]) \div (2 ^ (7 - q[2]))) % 2 = 1 } }

\* The next step is a cycle that executes the draw just executed again, with
\* I, memory, V[X] and V[Y] as they were before it.
SameDrawAgain ==
  /\ status = "running" /\ n' = n + 1
  /\ pc + 1 < MemSize /\ opcode' = opcode
  /\ I = pre.I /\ memory = pre.memory
  /\ V[OpX] = pre.V[OpX] /\ V[OpY] = pre.V[OpY]

\* C7: a sprite draw executed twice in a row, with the same I, memory, V[X]
\* and V[Y], restores the frame buffer the first draw found; on a cleared
\* display the first draw sets exactly the sprite's set bits with VF = 0, and
\* the second clears them with VF = 1 when the sprite has a set bit.
C7_DrawInvolution ==
  [][ /\ (Drew /\ SameDrawAgain) => buffer' = pre.buffer
      /\ (Drew' /\ pre'.buffer = {}) => (buffer' = SpriteBits' /\ V'[F] = 0)
      /\ (Drew /\ pre.buffer = {} /\ SpriteBits # {} /\ SameDrawAgain) =>
           (buffer' = {} /\ V'[F] = 1)
    ]_vars

\* The second of two equal draws over a display that was not clear: it has
\* erased pixels and the buffer is as before the first.
C7_DrawWitness ==
  /\ Drew /\ status = "running" /\ n = 6
  /\ pre.opcode = opcode
  /\ OpX # F /\ OpY # F /\ OpD = 15
  /\ V[F] = 1
  /\ buffer # {} /\ buffer # pre.buffer

\* ------------------------------------------- bulk store and load (FX55, FX65)

\* ANNN FF65 ANNN FX55 FX65: the registers filled from the font, then stored
\* and loaded back. The stores go to free memory, over the font, over the
\* program's own FX65, and up to and past the end of memory.
BulkRoms ==
  { InsNNN(10, a0) \o InsNN(15, 15, 101) \o InsNNN(10, a1) \o
    InsNN(15, X, 85) \o InsNN(15, X, 101) :
      a0 \in {0, 5}, a1 \in {768, 0, 520, 4080, 4088}, X \in Reg }

InitBulk == rom_file \in BulkRoms /\ Constructed
SpecBulk == InitBulk /\ [][Next]_vars

\* C8: FX55 with I + X <= 4095 writes memory[I + i] = V[i] for exactly the i
\* in 0..X and no other cell, and changes neither I nor a register; FX65
\* executed right after it, with the same X, leaves V0..VX as they were before
\* the store, and I unchanged.
C8_BulkRoundTrip ==
  [][ /\ (RanF(85)' /\ pre'.I + OpX' <= 4095) =>
           /\ status' = "running"
           /\ \A a \in Addr :
                Peek(memory', a) = IF a >= pre'.I /\ a <= pre'.I + OpX'
                                   THEN pre'.V[a - pre'.I]
                                   ELSE Peek(pre'.memory, a)
           /\ I' = pre'.I
           /\ V' = pre'.V
      /\ ( /\ RanF(85) /\ pre.I + OpX <= 4095
           /\ n' = n + 1 /\ opcode' = opcode + 16 ) =>
           /\ status' = "running"
           /\ \A i \in 0 .. OpX : V'[i] = pre.V[i]
           /\ I' = pre.I
    ]_vars

\* All 16 registers stored at 0xFF0..0xFFF and loaded back.
C8_BulkWitness ==
  /\ RanF(101) /\ status = "running"
  /\ pre.opcode = opcode - 16
  /\ OpX = 15 /\ I = 4080
  /\ V[0] = 240 /\ V[1] = 144 /\ V[15] = 240
  /\ \A i \in Reg : Peek(memory, 4080 + i) = V[i]

\* --------------------------------------------- call and return (2NNN, 00EE)

\* Four instructions, each a call into the program or a return; and a call
\* of 0x300 with the return there.
CallRoms ==
  { w[1] \o w[2] \o w[3] \o w[4] :
      w \in [1 .. 4 -> {InsNNN(2, 514), InsNNN(2, 516), InsNNN(2, 518),
                        InsNNN(0, 238)}] }
  \cup { InsNNN(2, 768) \o Image(254, 0, 0) \o InsNNN(0, 238) }

InitCall == rom_file \in CallRoms /\ Constructed
SpecCall == InitCall /\ [][Next]_vars

\* C9: 2NNN executed at p pushes p + 2 and sets PC = NNN; 00EE on a stack that
\* is not empty pops the address pushed last into PC, the stack below it
\* unchanged (so that its depth is again what it was before the matching call).
C9_CallReturn ==
  /\ (Executed /\ OpA = 2) =>
       /\ status = "running"
       /\ stack = Append(pre.stack, pre.pc + 2)
       /\ pc = OpNNN
  /\ (Executed /\ opcode = 238 /\ Len(pre.stack) > 0) =>
       /\ status = "running"
       /\ pc = pre.stack[Len(pre.stack)]
       /\ stack = SubSeq(pre.stack, 1, Len(pre.stack) - 1)

\* CALL 0x300 from 0x200, then the RETURN at 0x300: PC is 0x202 again.
C9_CallWitness ==
  /\ Executed /\ opcode = 238 /\ status = "running"
  /\ n = 2 /\ pre.pc = 768 /\ pre.stack = << 514 >>
  /\ pc = 514 /\ stack = << >>

\* Two calls nested, then two returns: the inner return has gone back into
\* the outer subroutine, the outer one to the first call.
C9_NestedWitness ==
  /\ Executed /\ opcode = 238 /\ status = "running"
  /\ n = 4 /\ Len(pre.stack) = 1 /\ stack = << >>
  /\ pc = 514

\* ------------------------------------------------------------ unknown opcodes

\* Instruction words that are none of the defined forms.
UnknownWords ==
  { Ins(A, X, Y, N) : A \in {5, 9}, X \in {0, 1}, Y \in {0, 1}, N \in {1, 15} }
  \cup { Ins(8, X, Y, N) : X \in {0, 1}, Y \in {0, 1}, N \in {8, 13, 15} }
  \cup { InsNN(14, X, NN) : X \in {0, 1}, NN \in {0, 159} }
  \cup { InsNN(15, X, NN) : X \in {0, 1}, NN \in {0, 8, 102, 255} }
  \cup { InsNNN(0, NNN) : NNN \in {0, 225, 239, 480, 4095} }

\* 60a 61b and one such word.
UnknownRoms ==
  { InsNN(6, 0, a) \o InsNN(6, 1, b) \o w :
      a \in {0, 7}, b \in {0, 7}, w \in UnknownWords }

InitUnknown == rom_file \in UnknownRoms /\ Constructed
SpecUnknown == InitUnknown /\ [][Next]_vars

\* The defined opcode forms, as the spec and the comments of the code list
\* them.
DefinedOpcode(op) ==
  LET A == op \div 4096
      D == op % 16
      NN == op % 256
      NNN == op % 4096
  IN CASE A = 0 -> NNN \in {224, 238}
       [] A \in {5, 9} -> D = 0
       [] A = 8 -> D \in (0 .. 7) \cup {14}
       [] A = 14 -> NN \in {158, 161}
       [] A = 15 -> NN \in {7, 10, 21, 24, 30, 41, 51, 85, 101}
       [] OTHER -> TRUE

\* C10: a step on an instruction word that is none of the defined forms
\* completes, leaves PC at the old PC + 2 and changes nothing else.
C10_UnknownOpcode ==
  (Executed /\ ~DefinedOpcode(opcode)) =>
    /\ status = "running"
    /\ pc = pre.pc + 2
    /\ V = pre.V /\ I = pre.I /\ memory = pre.memory /\ stack = pre.stack
    /\ delay_timer = pre.delay_timer /\ sound_timer = pre.sound_timer
    /\ buffer = pre.buffer

\* ------------------------------------------------------ sound timer (FX18)

\* 6Xv FX18
SoundRoms ==
  { InsNN(6, X, v) \o InsNN(15, X, 24) : X \in Reg, v \in ByteSample }

InitSound == rom_file \in SoundRoms /\ Constructed
SpecSound == InitSound /\ [][Next]_vars

\* C12: the sound timer is 0 at construction, FX18 leaves it equal to the
\* value V[X] had before the step, and no other opcode changes it.
C12_SoundTimer ==
  /\ n = 0 => sound_timer = 0
  /\ RanF(24) => sound_timer = pre.V[OpX]
  /\ (n > 0 /\ ~RanF(24)) => sound_timer = pre.sound_timer

\* ----------------------------------------------------------- add to I (FX1E)

\* 6Xv ANNN FX1E, with sums on both sides of 0xFFF.
AddIRoms ==
  { InsNN(6, X, v) \o InsNNN(10, a) \o InsNN(15, X, 30) :
      X \in Reg, v \in ByteSample, a \in {0, 768, 3841, 4095} }

InitAddI == rom_file \in AddIRoms /\ Constructed
SpecAddI == InitAddI /\ [][Next]_vars

\* C13: after FX1E, for every X in 0..15 (X = 0xF included), I is (i + v) mod
\* 65536 and VF is 1 iff i + v > 0xFFF, i and v being I and V[X] before the
\* step.
C13_AddToI ==
  RanF(30) =>
    /\ I = (pre.I + pre.V[OpX]) % 65536
    /\ V[F] = IF pre.I + pre.V[OpX] > 4095 THEN 1 ELSE 0

\* ------------------------------------------------------ glyph address (FX29)

\* 6Xv FX29, for every value of a register.
GlyphRoms ==
  { InsNN(6, X, v) \o InsNN(15, X, 41) : X \in {0, 7, 15}, v \in Byte }

InitGlyph == rom_file \in GlyphRoms /\ Constructed
SpecGlyph == InitGlyph /\ [][Next]_vars

\* C14: after FX29, I is (v mod 16) * 5 for every value v of V[X], the address
\* of a glyph of the font, in 0x000..0x04B.
C14_GlyphAddress ==
  RanF(41) =>
    /\ I = (pre.V[OpX] % 16) * 5
    /\ I \in 0 .. 75

\* ----------------------------------------------- return on an empty stack

\* C16: 00EE on an empty stack ends the step with an error: the process does
\* not go on, PC is assigned nothing (it stays at the advanced old PC + 2), and
\* the stack stays empty; nothing else changes.
C16_StackUnderflow ==
  (Executed /\ opcode = 238 /\ Len(pre.stack) = 0) =>
    /\ status = "IndexError"
    /\ ~ENABLED EmulateCycle
    /\ pc = pre.pc + 2
    /\ stack = << >>
    /\ V = pre.V /\ I = pre.I /\ memory = pre.memory /\ buffer = pre.buffer

\* A return as the first instruction of the program, and one after a call
\* and its return.
C16_UnderflowWitness ==
  /\ Executed /\ opcode = 238 /\ Len(pre.stack) = 0
  /\ status = "IndexError"
  /\ n = 3 /\ pre.pc = 514 /\ pc = 516

\* --------------------------------------------------- memory accesses in range

\* Programs that take PC or I to the end of memory: a jump to the last byte
\* or the last word, an indexed jump past 0xFFF, and BCD, bulk store and bulk
\* load at the last addresses, also with I raised above 0xFFF by FX1E.
MemRoms ==
  { InsNNN(1, a) : a \in {4092, 4094, 4095} }
  \cup { InsNN(6, 0, v) \o InsNNN(11, a) :
           v \in {0, 1, 255}, a \in {3840, 4093, 4095} }
  \cup { InsNNN(10, a) \o InsNN(15, X, op) :
           a \in {4080, 4093, 4094, 4095}, X \in {0, 2, 15},
           op \in {51, 85, 101} }
  \cup { InsNN(6, 0, v) \o InsNNN(10, 4095) \o InsNN(15, 0, 30) \o
         Ins(13, 0, 0, 15) \o InsNN(15, 0, op) :
           v \in {0, 1, 255}, op \in {51, 85, 101} }

InitMem == rom_file \in MemRoms /\ Constructed
SpecMem == InitMem /\ [][Next]_vars

\* The last cycle ended in the IndexError of a memory access: of the fetch at
\* PC or PC + 1, or of FX33, FX55 or FX65 at I and above.
MemoryFault ==
  /\ n > 0 /\ pre.status = "running"
  /\ status = "IndexError"
  /\ \/ pre.pc + 1 >= MemSize
     \/ OpA = 15 /\ OpNN \in {51, 85, 101}

\* C17: in every reachable state, every memory access of a step is at an
\* address in 0..4095: no step fails with an out-of-range memory access.
C17_MemorySafety == ~MemoryFault

\* -------------------------------------------------- sprite draw, cell by cell

\* C18: DXYN with I + N <= 4096 toggles exactly the cells under the set bits
\* of the N rows at I (bit 7 - c of row r at ((V[X] + c) mod 64, (V[Y] + r) mod
\* 32)); VF is 1 iff one of them was set before the draw, else 0; N = 0 changes
\* no cell and gives VF = 0; I, memory and the other registers are unchanged.
C18_SpriteDraw ==
  (Drew /\ pre.I + OpD <= MemSize) =>
    /\ status = "running"
    /\ buffer = (pre.buffer \ SpriteBits) \cup (SpriteBits \ pre.buffer)
    /\ V[F] = IF SpriteBits \cap pre.buffer # {} THEN 1 ELSE 0
    /\ OpD = 0 => (buffer = pre.buffer /\ V[F] = 0)
    /\ I = pre.I /\ memory = pre.memory
    /\ \A i \in Reg \ {F} : V[i] = pre.V[i]

\* A draw of 15 rows that wraps round the right edge, erasing some cells and
\* setting others.
C18_SpriteWitness ==
  /\ Drew /\ status = "running"
  /\ OpD = 15 /\ OpX # OpY /\ pre.V[OpX] = 255
  /\ SpriteBits \cap pre.buffer # {}
  /\ SpriteBits \ pre.buffer # {}
  /\ V[F] = 1
  /\ \E y \in 0 .. (YYY - 1) : <<0, y>> \in buffer /\ <<63, y>> \in buffer

\* --------------------------------------------------------------- delay timer

\* FY07, 6Xv, FX15, FY07, FZ07, FY07: a read before any write, then a write
\* and three reads, with time passing in between.
TimerRoms ==
  { InsNN(15, 1, 7) \o InsNN(6, X, v) \o InsNN(15, X, 21) \o
    InsNN(15, 1, 7) \o InsNN(15, Z, 7) \o InsNN(15, 1, 7) :
      X \in {0, 1}, Z \in {1, 2}, v \in {0, 1, 30, 255} }

InitTimer == rom_file \in TimerRoms /\ Constructed
NextTimer == LoadRom \/ EmulateCycle \/ Tick
SpecTimer == InitTimer /\ [][NextTimer]_vars

\* The time between the last write of the timer and the last cycle, in 1/120 s.
Elapsed == pre.clock - pre.delay_timer[2]

\* A read t whole ticks after the timer was set to v gives max(0, v - t); a
\* read is never below 0, and is 0 while the timer holds its initial 0.
C15_ReadValue ==
  /\ RanF(21) => delay_timer = << pre.V[OpX], pre.clock >>
  /\ RanF(7) =>
       /\ status = "running"
       /\ V[OpX] >= 0
       /\ Elapsed % 2 = 0 =>
            V[OpX] = Max(0, pre.delay_timer[1] - Elapsed \div 2)
       /\ pre.delay_timer[1] = 0 => V[OpX] = 0
       /\ delay_timer = pre.delay_timer

\* Of two reads with no cycle in between, the second gives no more than the
\* first.
C15_ReadsDescend ==
  (RanF(7) /\ n' = n + 1 /\ (RanF(7))') => V'[OpX'] <= V[OpX]

\* C15: with time in ticks of 1/60 s, FX07 executed t ticks after FX15 set the
\* timer to v gives max(0, v - t); successive reads between writes never
\* increase and are never below 0; a read before any write gives 0.
C15_DelayTimer == [](C15_ReadValue) /\ [][C15_ReadsDescend]_vars

\* The timer set to 30 and read half a second later: 0. The read before it
\* gave more.
C15_HalfSecondWitness ==
  /\ RanF(7) /\ n = 6
  /\ pre.delay_timer[1] = 30 /\ Elapsed = 60
  /\ V[1] = 0 /\ V[2] > 0

\* ------------------------------------------------------------------ the keys

\* 6Xk, EX9E, EXA1, FY0A, FY0A: a key tested both ways, then the key wait.
InputRoms ==
  { InsNN(6, X, k) \o Ins(14, X, 9, 14) \o Ins(14, X, 10, 1) \o
    InsNN(15, Y, 10) \o InsNN(15, Y, 10) :
      X \in {0, 3}, Y \in {0, 2}, k \in {0, 1} }

InitInput == rom_file \in InputRoms /\ Constructed
NextInput == LoadRom \/ PostEvent \/ HandleInputEvent \/ MainCycle
SpecInput == InitInput /\ [][NextInput]_vars

\* C11: the key wait (FX0A) completes, once a key k in 0..15 is pressed, with
\* V[X] = k and PC = old PC + 2; it never ends in an error.
C11_KeyWait ==
  RanF(10) =>
    /\ status = "running"
    /\ pc = pre.pc + 2
    /\ V[OpX] \in 0 .. (NumKeys - 1)

\* Whether the most recent event for key in evs is a key down; was, if evs
\* holds no event for key.
RECURSIVE LastDown(_, _, _)
LastDown(evs, key, was) ==
  IF evs = << >> THEN was
  ELSE IF evs[Len(evs)].key = key /\ evs[Len(evs)].type \in {"KEYUP", "KEYDOWN"}
  THEN evs[Len(evs)].type = "KEYDOWN"
  ELSE LastDown(SubSeq(evs, 1, Len(evs) - 1), key, was)

\* C20: after handle_input_event, for every mapped key k, keyboard[k] is
\* whether the most recent event for k dequeued so far was a key down: no
\* dequeued event is dropped.
C20_KeyState ==
  [][(HandleInputEvent /\ status' = "running") =>
       \A i \in 0 .. (NumKeys - 1) :
         keyboard'[i] = LastDown(events, keys[i + 1], keyboard[i])]_vars

\* --------------------------------------------------------- load, called again

\* 6Xv 1NNN: a program that moves PC, to the start, onwards, and to the end
\* of memory.
ReloadRoms ==
  { InsNN(6, X, v) \o InsNNN(1, a) :
      X \in {0, 15}, v \in {0, 7}, a \in {512, 516, 768, 4092, 4094} }

InitReload == rom_file \in ReloadRoms /\ Constructed
NextReload == LoadRom \/ EmulateCycle \/ Reload
SpecReload == InitReload /\ [][NextReload]_vars

\* C19: a successful load, in whatever state it is called, sets memory[0x200 +
\* k] = bytes[k] for every k < len(bytes) and changes no other memory cell,
\* register, PC, I, stack or timer.
C19_LoadAt200 ==
  [][((LoadRom \/ Reload) /\ status' = "running") =>
       /\ \A k \in 1 .. Len(rom_file') :
            Peek(memory', StartPc + k - 1) = rom_file'[k]
       /\ \A a \in (DOMAIN memory \cup DOMAIN memory') \
                   (StartPc .. (StartPc + Len(rom_file') - 1)) :
            Peek(memory', a) = Peek(memory, a)
       /\ UNCHANGED << pc, I, V, stack, delay_timer, sound_timer >>]_vars

====
